---- MODULE Spec2Model ----
(***************************************************************************)
(* Model of terminal_spectrograph: the SignalProcessor framer              *)
(* (src/src/processing.rs), the Canvas renderer (src/src/drawing.rs), the  *)
(* HackRF receive hand-off (src/src/radio/hackrf/mod.rs) and the pipeline  *)
(* glue of the two binaries (src/src/main.rs, src/examples/radio.rs).      *)
(*                                                                         *)
(* A sample is identified by its position in the radio's sample stream     *)
(* (1, 2, 3, ...); a chunk is a sequence of consecutive samples.  The      *)
(* transform primitive is a black box: a spectrum is recorded as the       *)
(* output length together with the frame of samples it was computed from.  *)
(***************************************************************************)
EXTENDS Integers, Sequences, FiniteSets, TLC

\* ------------------------------------------------------------------ bounds
MaxRate == 6       \* sample rates 0..MaxRate in the framer specification
MaxFftRate == 2    \* frame rates 0..MaxFftRate
MaxLen == 3        \* frame lengths 1..MaxLen
MaxChunk == 3      \* samples per chunk handed to add_signal_buffer
MaxFed == 12       \* total samples fed in the framer specification
MaxReconfig == 2   \* calls of new_fft_len in one run
MaxShiftLen == 4   \* length of the slices handed to fft_shift
MaxVal == 1        \* slice elements are 0..MaxVal
MaxShifts == 3     \* fft_shift calls on one slice
MaxPixelNum == 4   \* sub-row arguments 0..MaxPixelNum of pixel_nums_to_braille
MaxRows == 3       \* terminal rows 0..MaxRows
MaxCols == 1       \* terminal columns 0..MaxCols
MaxExp == 1        \* a spectrum bin has magnitude 10^e, e in 0..MaxExp
MaxSpecLen == 2    \* bins per spectrum handed to add_spectrum
MaxAdds == 5       \* add_spectrum calls on one Canvas
MaxPipeRate == 2   \* sample rates 0..MaxPipeRate in the pipeline specification
MaxPipeLen == 2    \* frame lengths 1..MaxPipeLen in the pipeline specification
MaxPipeFftRate == 1 \* frame rates 1..MaxPipeFftRate in the pipeline specification
MaxPipeChunk == 2  \* samples per chunk delivered by the radio callback
MaxStream == 6     \* total samples the radio delivers in one run
MaxQueue == 2      \* chunks waiting in the (unbounded) radio channel
MaxWidgetCols == 2 \* widget columns 0..MaxWidgetCols in the widget specification
MaxWidgetRows == 3 \* widget rows 0..MaxWidgetRows in the widget specification
MaxPixel == 13     \* pixel heights 0..MaxPixel handed to draw_pixel_pair
MaxMag == 4        \* a bin magnitude is m * max_height / 4, m in 0..MaxMag
MaxBins == 3       \* bins per spectrum handed to draw_spectrum and bin_heights
MaxHistory == 3    \* traces in the history handed to draw_waterfall
MaxTraceLen == 2   \* values per trace of that history

\* The worked example of the specification (2 MHz, 10 frames/s, 1024 bins).
Worked == [sample_rate_hz |-> 2000000, fft_rate_hz |-> 10, fft_len |-> 1024]

VARIABLES
    build,          \* "debug" (overflow checks on) or "release" (wrapping)
    processor,      \* the SignalProcessor struct
    status,         \* "ok"; "panic_arith" (overflow, division by zero) or
                    \* "panic_fft" (transform handed a wrong length) after a panic
    to_discard,     \* num_samples_to_discard of the last add_signal_buffer call
    acc_len,        \* fft_len in force when the buffered frame got its first sample
    fed,            \* number of samples handed to add_signal_buffer so far
    emitted,        \* every spectrum returned so far, in order
    reconfigs,      \* number of new_fft_len calls so far
    slice,          \* the slice a test harness hands to fft_shift, shifted in place
    slice_in,       \* that slice before the first fft_shift
    shifts,         \* number of fft_shift calls on it
    braille,        \* last pixel_nums_to_braille call: [p1, p2, ch], or <<>>
    widget,         \* size of the widget (or terminal) drawn on: [cols, rows]
    last_draw,      \* last drawing call on it: its arguments and result, or <<>>
    canvas,         \* the Canvas struct (terminal size, widget heights, history)
    canvas_status,  \* "ok", or "panic" once an add_spectrum call has panicked
    adds,           \* number of add_spectrum calls so far
    program,        \* "radio" (examples/radio.rs) or "main" (src/main.rs)
    radio,          \* the HackRF: [streaming, stopped, rx]; rx is the Sender it owns
    rx_chan,        \* chunks in the channel from the radio callback to the Framer
    streamed,       \* number of samples the radio callback has delivered
    rx_recv,        \* whether the Receiver of rx_chan (held by the Framer) exists
    framer_pc,      \* "recv", "send", "done", "panicked" or "killed"
    pending,        \* spectra of the current chunk not yet handed to the channel
    spec_chan,      \* spectra in the channel from the Framer to the Renderer
    spec_send,      \* whether the Framer's sending end of spec_chan exists
    spec_recv,      \* whether the Renderer's receiving end of spec_chan exists
    shared_fft_len, \* the Arc<Mutex<usize>> requested frame length
    main_pc,        \* "recv", "draw", "drop_recv", "stop_rx", "join", "return",
                    \* "drop_radio", "exit" or "exited"
    current,        \* the spectrum the Renderer is drawing, as <<spectrum>>, or <<>>
    received,       \* every spectrum the Renderer has received, in order
    offered         \* spectra handed to the channel since the Renderer last received

framerVars == <<build, processor, status, to_discard, acc_len, fed, emitted,
                reconfigs>>

drawingVars == <<slice, slice_in, shifts, braille, widget, last_draw>>

canvasVars == <<canvas, canvas_status, adds>>

pipeVars == <<program, radio, rx_chan, streamed, rx_recv, framer_pc, pending,
              spec_chan, spec_send, spec_recv, shared_fft_len, main_pc, current,
              received, offered>>

vars == <<framerVars, drawingVars, canvasVars, pipeVars>>

\* ------------------------------------------------------------ u32 arithmetic
\* A u32 is held as two 16-bit limbs, [hi, lo], so that values up to 2^32 - 1
\* are exact.  Operands taken from the model's state are below 2^31.
Limb == 65536

U32(n) == [hi |-> n \div Limb, lo |-> n % Limb]

\* a - b modulo 2^32, for 0 <= a, b < 2^31.
WrappingSub(a, b) ==
    IF a >= b THEN U32(a - b)
    ELSE LET d == (b - a) - 1      \* 2^32 - (b - a) = (2^32 - 1) - d
         IN [hi |-> (Limb - 1) - (d \div Limb), lo |-> (Limb - 1) - (d % Limb)]

\* u / f for 0 < f < 2^15, by long division over the limbs.
DivU32(u, f) ==
    LET r == u.hi % f
    IN [hi |-> u.hi \div f, lo |-> (r * Limb + u.lo) \div f]

\* n >= u, for a counter 0 <= n < 2^31.
GeU32(n, u) == u.hi < Limb \div 2 /\ n >= u.hi * Limb + u.lo

\* ------------------------------------------------------------- the framer
\* SignalProcessor::new
SignalProcessorNew(sample_rate_hz, fft_rate_hz, fft_len) ==
    [fft |-> fft_len,                \* the planned transform, by its length
     signal |-> <<>>,
     fft_rate_hz |-> fft_rate_hz,
     sample_rate_hz |-> sample_rate_hz,
     fft_len |-> fft_len,
     num_samples_discarded |-> 0]

\* SignalProcessor::new_fft_len: a new plan and a new fft_len; reserve() only
\* grows the capacity, so signal and num_samples_discarded are kept.
new_fft_len(p, fft_len) ==
    [p EXCEPT !.fft = fft_len, !.fft_len = fft_len]

\* FFT::process(input, output) of the transform planned for `plan` points:
\* it panics unless both buffers have exactly the planned length.
FftProcessOk(plan, input, output_len) ==
    Len(input) = plan /\ output_len = plan

\* Mutant: the frame length left out of the product.
NumSamplesToDiscardNoLen(p, bld) ==
    [panic |-> p.fft_rate_hz = 0,
     n |-> IF p.fft_rate_hz = 0 THEN U32(0)
           ELSE DivU32(WrappingSub(p.sample_rate_hz, p.fft_rate_hz), p.fft_rate_hz)]

\* The first statement of add_signal_buffer:
\*   (sample_rate_hz - fft_rate_hz * fft_len as u32) / fft_rate_hz
\* "panic" on division by zero, and on subtraction overflow in a debug build;
\* a release build wraps the subtraction modulo 2^32.
NumSamplesToDiscard(p, bld) ==
    LET product == p.fft_rate_hz * p.fft_len
    IN IF p.fft_rate_hz = 0 THEN [panic |-> TRUE, n |-> U32(0)]
       ELSE IF p.sample_rate_hz < product /\ bld = "debug"
            THEN [panic |-> TRUE, n |-> U32(0)]
       ELSE [panic |-> FALSE,
             n |-> DivU32(WrappingSub(p.sample_rate_hz, product), p.fft_rate_hz)]

\* Mutant: > in place of >=, one sample too many discarded per frame.
DiscardDoneStrict(p, target) == GeU32(p.num_samples_discarded - 1, target)

\* The comparison that decides whether a sample is kept.
DiscardDone(p, target) == GeU32(p.num_samples_discarded, target)

\* One iteration of `for x in buff`.  st = [p, acc, spectra, status].
SampleStep(st, x, target) ==
    LET p == st.p
    IN IF st.status # "ok" THEN st
       ELSE IF DiscardDone(p, target) THEN
           LET sig == Append(p.signal, x)
               acc == IF p.signal = <<>> THEN p.fft_len ELSE st.acc
           IN IF Len(sig) >= p.fft_len THEN
                  IF FftProcessOk(p.fft, sig, p.fft_len)
                  THEN [st EXCEPT
                          !.p = [p EXCEPT !.signal = <<>>,
                                          !.num_samples_discarded = 0],
                          !.acc = acc,
                          !.spectra = Append(st.spectra,
                              [len |-> p.fft_len, frame |-> sig, requested |-> acc])]
                  ELSE [st EXCEPT !.p = [p EXCEPT !.signal = sig],
                                  !.acc = acc,
                                  !.status = "panic_fft"]
              ELSE [st EXCEPT !.p = [p EXCEPT !.signal = sig], !.acc = acc]
       ELSE [st EXCEPT !.p = [p EXCEPT !.num_samples_discarded = @ + 1]]

RECURSIVE SampleLoop(_, _, _)
SampleLoop(st, buff, target) ==
    IF buff = <<>> THEN st
    ELSE SampleLoop(SampleStep(st, Head(buff), target), Tail(buff), target)

\* Mutant: every call starts a new frame, dropping the samples buffered by
\* the call before.
add_signal_buffer_restarting(p, acc, buff, bld) ==
    LET t == NumSamplesToDiscard(p, bld)
        st0 == [p |-> [p EXCEPT !.signal = <<>>], acc |-> acc, spectra |-> <<>>,
                status |-> "ok"]
    IN IF t.panic
       THEN [p |-> p, acc |-> acc, spectra |-> <<>>, status |-> "panic_arith",
             target |-> t.n]
       ELSE LET st == SampleLoop(st0, buff, t.n)
            IN [p |-> st.p, acc |-> st.acc, spectra |-> st.spectra,
                status |-> st.status, target |-> t.n]

\* SignalProcessor::add_signal_buffer: [p, acc, spectra, status, target].
add_signal_buffer(p, acc, buff, bld) ==
    LET t == NumSamplesToDiscard(p, bld)
        st0 == [p |-> p, acc |-> acc, spectra |-> <<>>, status |-> "ok"]
    IN IF t.panic
       THEN [p |-> p, acc |-> acc, spectra |-> <<>>, status |-> "panic_arith",
             target |-> t.n]
       ELSE LET st == SampleLoop(st0, buff, t.n)
            IN [p |-> st.p, acc |-> st.acc, spectra |-> st.spectra,
                status |-> st.status, target |-> t.n]

\* The next n samples of the stream, after `done` samples.
Chunk(done, n) == [i \in 1..n |-> done + i]

\* ------------------------------------------------------------ drawing.rs
\* Option<u8>: None is <<>>, Some(p) is <<p>>.
None == <<>>
Some(p) == <<p>>

\* Bitwise OR of two naturals (Rust's |=).
RECURSIVE BitOr(_, _)
BitOr(a, b) ==
    IF a = 0 THEN b
    ELSE IF b = 0 THEN a
    ELSE (IF a % 2 = 1 \/ b % 2 = 1 THEN 1 ELSE 0) + 2 * BitOr(a \div 2, b \div 2)

\* pixel_map[i][j] of pixel_nums_to_braille, rows 0..3, j = 0 left, 1 right.
pixel_map == <<<<1, 8>>, <<2, 16>>, <<4, 32>>, <<64, 128>>>>

BrailleBase == 10240      \* 0x2800

\* Mutant: a single dot at sub-row p instead of the bar from p to 3.
OrColumnOneDot(c, i, col) ==
    IF i >= 4 THEN c ELSE BitOr(c, pixel_map[i + 1][col + 1])

\* `for i in p..4 { c |= pixel_map[i][col] }`, from i upwards.
RECURSIVE OrColumn(_, _, _)
OrColumn(c, i, col) ==
    IF i >= 4 THEN c
    ELSE OrColumn(BitOr(c, pixel_map[i + 1][col + 1]), i + 1, col)

\* pixel_nums_to_braille(p1, p2): the code point of the glyph.
pixel_nums_to_braille(p1, p2) ==
    LET c0 == 0
        c1 == IF p1 # None THEN OrColumn(c0, p1[1], 0) ELSE c0
        c2 == IF p2 # None THEN OrColumn(c1, p2[1], 1) ELSE c1
    IN BrailleBase + c2

\* Mutant: the split point at N/2 (the halves of an odd slice the other way).
FftShiftSplitLow(spec) ==
    LET n == Len(spec)
        k == n \div 2
    IN SubSeq(spec, k + 1, n) \o SubSeq(spec, 1, k)

\* fft_shift: the slice after the call, last_half followed by first_half.
fft_shift(spec) ==
    LET n == Len(spec)
        k == (n + 1) \div 2                  \* split_at((len + 1) / 2)
        first_half == SubSeq(spec, 1, k)
        last_half == SubSeq(spec, k + 1, n)
    IN last_half \o first_half

\* ------------------------------------------- drawing on a widget (drawing.rs)
\* A widget under a drawing call: st = [cols, rows, grid, status].  grid maps
\* (column, row), both from 0, to a Cell; status is "ok", "panic_arith"
\* (unsigned overflow, division by zero), "panic_unwrap" (get_mut found no
\* cell) or "panic_index" (slice index out of range).
Space == 32               \* ' ', the character of Cell::default()
UpperHalfBlock == 9600    \* 0x2580, the waterfall's character
max_height == 500         \* draw_spectrum
ColorLower == 232         \* color_mapping: lower
ColorUpper == 255         \* color_mapping: upper
IntensityScale == 16      \* a waterfall intensity f is held as 16 * f

DefaultCell == [ch |-> Space, fg |-> "Default", bg |-> "Default", attrs |-> "Default"]

\* char_to_cell
char_to_cell(c) == [ch |-> c, fg |-> "Default", bg |-> "Default", attrs |-> "Bold"]

\* canvas.clear(Cell::default()), and a widget nothing has been drawn on.
Cleared(cols, rows) ==
    [cols |-> cols, rows |-> rows,
     grid |-> [c \in 0..(cols - 1), r \in 0..(rows - 1) |-> DefaultCell],
     status |-> "ok"]

\* *canvas.get_mut(c, r).unwrap() = cell
PutCell(st, c, r, cell) ==
    IF st.status # "ok" THEN st
    ELSE IF c < st.cols /\ r < st.rows THEN [st EXCEPT !.grid[c, r] = cell]
    ELSE [st EXCEPT !.status = "panic_unwrap"]

\* for row_idx in from..to { *canvas.get_mut(col_idx, row_idx).unwrap() = cell }
RECURSIVE FillRows(_, _, _, _, _)
FillRows(st, col_idx, from, to, cell) ==
    IF from >= to THEN st
    ELSE FillRows(PutCell(st, col_idx, from, cell), col_idx, from + 1, to, cell)

Min(a, b) == IF a <= b THEN a ELSE b
Max(a, b) == IF a >= b THEN a ELSE b

\* `if p >= max_pixel_height { max_pixel_height - 1 } else { p }`.  With no
\* rows the subtraction overflows; -1 stands for the wrapped value.
ClampPixel(max_pixel_height, p) ==
    IF p >= max_pixel_height THEN max_pixel_height - 1 ELSE p

\* Mutant: the height reversed without the offset of one.
ReversePixelNoOffset(max_pixel_height, p) == max_pixel_height - p

\* `max_pixel_height - p - 1`: the pixel counted from the top.
ReversePixel(max_pixel_height, p) == max_pixel_height - p - 1

\* draw_pixel_pair(canvas, col_idx, p1, p2) in build bld.
draw_pixel_pair(st, col_idx, p1_in, p2_in, bld) ==
    LET rows == st.rows
        max_pixel_height == 4 * rows
        overflow == max_pixel_height = 0 /\ bld = "debug"
        p1 == ReversePixel(max_pixel_height, ClampPixel(max_pixel_height, p1_in))
        p2 == ReversePixel(max_pixel_height, ClampPixel(max_pixel_height, p2_in))
        c1 == p1 \div 4
        c2 == p2 \div 4
        full_cell_char == pixel_nums_to_braille(Some(0), Some(0))
        left_fill_cell_char == pixel_nums_to_braille(Some(0), None)
        right_fill_cell_char == pixel_nums_to_braille(None, Some(0))
        s1 == FillRows(st, col_idx, Max(c1, c2), rows, char_to_cell(full_cell_char))
        s2 == FillRows(s1, col_idx, Min(c1, c2), c2, char_to_cell(left_fill_cell_char))
        s3 == FillRows(s2, col_idx, Min(c1, c2), c1, char_to_cell(right_fill_cell_char))
    IN IF st.status # "ok" THEN st
       ELSE IF overflow THEN [st EXCEPT !.status = "panic_arith"]
       ELSE IF c1 = c2 THEN
           PutCell(s3, col_idx, c1, char_to_cell(
               pixel_nums_to_braille(Some(p1 % 4), Some(p2 % 4))))
       ELSE IF c1 > c2 THEN
           PutCell(PutCell(s3, col_idx, c1, char_to_cell(
                       pixel_nums_to_braille(Some(p1 % 4), Some(0)))),
                   col_idx, c2, char_to_cell(
                       pixel_nums_to_braille(None, Some(p2 % 4))))
       ELSE
           PutCell(PutCell(s3, col_idx, c1, char_to_cell(
                       pixel_nums_to_braille(Some(p1 % 4), None))),
                   col_idx, c2, char_to_cell(
                       pixel_nums_to_braille(Some(0), Some(p2 % 4))))

\* The subsampling loop of spectrum_to_bin_heights; b = [dest, last_idx,
\* status], i counts the bins of spec from 0, dest is indexed from 1.
RECURSIVE SubsampleLoop(_, _, _)
SubsampleLoop(b, spec, i) ==
    IF i >= Len(spec) \/ b.status # "ok" THEN b
    ELSE IF (i * Len(b.dest)) \div Len(spec) > b.last_idx
         THEN LET last_idx == b.last_idx + 1
              IN IF last_idx < Len(b.dest)
                 THEN SubsampleLoop([b EXCEPT !.last_idx = last_idx,
                                              !.dest[last_idx + 1] = spec[i + 1]],
                                    spec, i + 1)
                 ELSE [b EXCEPT !.status = "panic_index"]
         ELSE SubsampleLoop(b, spec, i + 1)

\* spectrum_to_bin_heights(spec, dest), dest coming in as zeros.
spectrum_to_bin_heights(spec, dest_len) ==
    LET b == SubsampleLoop([dest |-> [k \in 1..dest_len |-> 0], last_idx |-> -1,
                            status |-> "ok"], spec, 0)
    IN [dest |-> fft_shift(b.dest), status |-> b.status]

\* The loop over the columns of draw_spectrum.  A bin holds |x|; the pixel
\* height is floor(|x| / max_height * pixel_height).
RECURSIVE DrawColumns(_, _, _, _)
DrawColumns(st, bins, col_idx, bld) ==
    IF col_idx >= st.cols \/ st.status # "ok" THEN st
    ELSE IF col_idx * 2 + 1 >= Len(bins) THEN [st EXCEPT !.status = "panic_index"]
    ELSE LET pixel_height == st.rows * 4
             p1 == (bins[col_idx * 2 + 1] * pixel_height) \div max_height
             p2 == (bins[col_idx * 2 + 2] * pixel_height) \div max_height
         IN DrawColumns(draw_pixel_pair(st, col_idx, p1, p2, bld), bins,
                        col_idx + 1, bld)

\* draw_spectrum(canvas, spec) in build bld.
draw_spectrum(cols, rows, spec, bld) ==
    LET pixel_width == cols * 2
        b == spectrum_to_bin_heights(spec, pixel_width)
        st == Cleared(cols, rows)
    IN IF b.status # "ok" THEN [st EXCEPT !.status = b.status]
       ELSE DrawColumns(st, b.dest, 0, bld)

\* color_mapping(f), f held as IntensityScale * f: the f32 product and sum
\* are exact for these values, and `as u8` truncates.
color_mapping(f) ==
    LET span == ColorUpper - ColorLower
        mapped == f * span + ColorLower * IntensityScale   \* IntensityScale * mapped
    IN IF mapped < ColorLower * IntensityScale THEN ColorLower
       ELSE IF mapped > ColorUpper * IntensityScale THEN ColorUpper
       ELSE mapped \div IntensityScale

\* Mutant: the two colours the other way round.
spectrum_heights_to_waterfall_cell_swapped(upper, lower) ==
    [ch |-> UpperHalfBlock, fg |-> color_mapping(lower), bg |-> color_mapping(upper),
     attrs |-> "Default"]

\* spectrum_heights_to_waterfall_cell
spectrum_heights_to_waterfall_cell(upper, lower) ==
    [ch |-> UpperHalfBlock, fg |-> color_mapping(upper), bg |-> color_mapping(lower),
     attrs |-> "Default"]

\* (0..cols).zip(upper_heights.zip_longest(lower_heights)), from column c.
RECURSIVE WaterfallPair(_, _, _, _, _)
WaterfallPair(st, row, upper_heights, lower_heights, c) ==
    IF c >= st.cols \/ (c >= Len(upper_heights) /\ c >= Len(lower_heights)) THEN st
    ELSE LET u == IF c < Len(upper_heights) THEN upper_heights[c + 1] ELSE 0
             l == IF c < Len(lower_heights) THEN lower_heights[c + 1] ELSE 0
         IN WaterfallPair(PutCell(st, c, row, spectrum_heights_to_waterfall_cell(u, l)),
                          row, upper_heights, lower_heights, c + 1)

\* (0..cols).zip(upper_heights), from column c.
RECURSIVE WaterfallSingle(_, _, _, _)
WaterfallSingle(st, row, upper_heights, c) ==
    IF c >= st.cols \/ c >= Len(upper_heights) THEN st
    ELSE WaterfallSingle(
             PutCell(st, c, row, spectrum_heights_to_waterfall_cell(upper_heights[c + 1], 0)),
             row, upper_heights, c + 1)

\* (0..rows).zip(spectra.iter().chunks_lazy(2)), from row `row`.
RECURSIVE WaterfallRows(_, _, _)
WaterfallRows(st, spectra, row) ==
    IF row >= st.rows \/ 2 * row >= Len(spectra) THEN st
    ELSE LET upper_heights == spectra[2 * row + 1]
             drawn_row == IF 2 * row + 1 < Len(spectra)
                          THEN WaterfallPair(st, row, upper_heights,
                                             spectra[2 * row + 2], 0)
                          ELSE WaterfallSingle(st, row, upper_heights, 0)
         IN WaterfallRows(drawn_row, spectra, row + 1)

\* draw_waterfall(canvas, spectra) on a widget nothing has been drawn on.
draw_waterfall(cols, rows, spectra) == WaterfallRows(Cleared(cols, rows), spectra, 0)

\* ------------------------------------------------ bin_heights (main.rs)
\* The loop of bin_heights.  b = [dest, height, i, j, status]; an element of
\* dest is [written, sum, divisor, first, last]: the quotient sum / divisor
\* the code stores, and the source positions (from 1) that went into sum.
RECURSIVE BinLoop(_, _, _, _)
BinLoop(b, source, samples_per_bin, k) ==
    IF k > Len(source) \/ b.status # "ok" THEN b
    ELSE LET height == b.height + source[k]
         IN IF b.i >= samples_per_bin
            THEN IF b.j < Len(b.dest)
                 THEN BinLoop([b EXCEPT !.dest[b.j + 1] =
                                            [written |-> TRUE, sum |-> height,
                                             divisor |-> samples_per_bin,
                                             first |-> b.first, last |-> k],
                                        !.i = 0, !.j = b.j + 1, !.height = 0,
                                        !.first = k + 1],
                              source, samples_per_bin, k + 1)
                 ELSE [b EXCEPT !.status = "panic_index"]
            ELSE BinLoop([b EXCEPT !.i = b.i + 1, !.height = height],
                         source, samples_per_bin, k + 1)

\* bin_heights(source, dest), dest coming in as zeros.
bin_heights(source, dest_len) ==
    LET unwritten == [written |-> FALSE, sum |-> 0, divisor |-> 1, first |-> 1,
                      last |-> 0]
        b0 == [dest |-> [k \in 1..dest_len |-> unwritten], height |-> 0, i |-> 0,
               j |-> 0, first |-> 1, status |-> "ok"]
    IN IF dest_len = 0 THEN [dest |-> <<>>, status |-> "panic_arith"]
       ELSE LET b == BinLoop(b0, source, Len(source) \div dest_len, 1)
            IN IF b.status # "ok" \/ b.i = 0 THEN [dest |-> b.dest, status |-> b.status]
               ELSE IF b.j < Len(b.dest)
               THEN [dest |-> [b.dest EXCEPT ![b.j + 1] =
                                  [written |-> TRUE, sum |-> b.height,
                                   divisor |-> b.i, first |-> b.first,
                                   last |-> Len(source)]],
                     status |-> "ok"]
               ELSE [dest |-> b.dest, status |-> "panic_index"]

\* ------------------------------------------------- Canvas (drawing.rs)
\* Canvas::new on a terminal of the given size.
CanvasNew(cols, rows) ==
    LET spectrum_height == rows \div 2
        waterfall_height == IF rows % 2 # 0 THEN rows \div 2 ELSE rows \div 2 + 1
    IN [cols |-> cols, rows |-> rows,
        spectrum_height |-> spectrum_height,
        waterfall_height |-> waterfall_height,
        history_capacity |-> waterfall_height * 2,  \* VecDeque::with_capacity
        history |-> <<>>]

\* draw_pixel_pair on a widget without rows: 4 * rows - 1 underflows (debug
\* build) or get_mut(..) finds no cell and unwrap panics (release build).
DrawSpectrumPanics(c) == c.cols > 0 /\ c.spectrum_height = 0

\* normalize_spectrum(spec, 26.0): FFT shift, then 10 * log10(|x|) / max_db.
\* A bin of magnitude 10^e is held as e; the result is in units of 1/26.
normalize_spectrum(spec) ==
    LET shifted_spec == fft_shift(spec)
    IN [i \in 1..Len(spec) |-> 10 * shifted_spec[i]]

\* normalized.chunks(2).map(|v| (v[0] + v[1]) / 2.0): in units of 1/52.
\* v[1] is out of bounds in the last chunk of an odd-length trace.
AveragePanics(normalized) == Len(normalized) % 2 = 1

Averaged(normalized) ==
    [j \in 1..(Len(normalized) \div 2) |-> normalized[2 * j - 1] + normalized[2 * j]]

\* self.history.push_front(averaged): VecDeque grows as needed.
PushFront(history, entry) == <<entry>> \o history

\* Canvas::add_spectrum.  `serial` numbers the call; it is kept beside the
\* trace only to tell the entries of the history apart.
add_spectrum(c, spec, serial) ==
    IF DrawSpectrumPanics(c) THEN [canvas |-> c, status |-> "panic"]
    ELSE LET normalized == normalize_spectrum(spec)
         IN IF AveragePanics(normalized) THEN [canvas |-> c, status |-> "panic"]
            ELSE [canvas |-> [c EXCEPT !.history =
                                 PushFront(c.history,
                                           [trace |-> Averaged(normalized),
                                            serial |-> serial])],
                  status |-> "ok"]

\* ----------------------------------------------------- idle components
FramerIdle ==
    /\ build = "debug"
    /\ processor = SignalProcessorNew(0, 0, 1)
    /\ status = "ok"
    /\ to_discard = U32(0)
    /\ acc_len = 1
    /\ fed = 0
    /\ emitted = <<>>
    /\ reconfigs = 0

DrawingIdle ==
    /\ slice = <<>>
    /\ slice_in = <<>>
    /\ shifts = 0
    /\ braille = <<>>
    /\ widget = [cols |-> 0, rows |-> 0]
    /\ last_draw = <<>>

CanvasIdle ==
    /\ canvas = CanvasNew(0, 0)
    /\ canvas_status = "ok"
    /\ adds = 0

PipeIdle ==
    /\ program = "radio"
    /\ radio = [streaming |-> FALSE, stopped |-> FALSE, rx |-> "None"]
    /\ rx_chan = <<>>
    /\ streamed = 0
    /\ rx_recv = FALSE
    /\ framer_pc = "done"
    /\ pending = <<>>
    /\ spec_chan = <<>>
    /\ spec_send = FALSE
    /\ spec_recv = FALSE
    /\ shared_fft_len = 1
    /\ main_pc = "exited"
    /\ current = <<>>
    /\ received = <<>>
    /\ offered = <<>>

\* ------------------------------------------------ framer specification
\* The SignalProcessor driven directly: any chunking of the sample stream,
\* interleaved with reconfigurations.
InitFramerWith(R, F, L) ==
    /\ build \in {"debug", "release"}
    /\ processor = SignalProcessorNew(R, F, L)
    /\ status = "ok"
    /\ to_discard = U32(0)
    /\ acc_len = L
    /\ fed = 0
    /\ emitted = <<>>
    /\ reconfigs = 0
    /\ DrawingIdle
    /\ CanvasIdle
    /\ PipeIdle

InitFramer ==
    \E R \in 0..MaxRate, F \in 0..MaxFftRate, L \in 1..MaxLen :
        InitFramerWith(R, F, L)

AddSignalBuffer(maxFed) ==
    \E n \in 1..MaxChunk :
        /\ status = "ok"
        /\ fed + n <= maxFed
        /\ LET r == add_signal_buffer(processor, acc_len, Chunk(fed, n), build)
           IN /\ processor' = r.p
              /\ acc_len' = r.acc
              /\ status' = r.status
              /\ to_discard' = r.target
              /\ emitted' = emitted \o r.spectra
        /\ fed' = fed + n
        /\ UNCHANGED <<build, reconfigs, drawingVars, canvasVars, pipeVars>>

NewFftLen ==
    \E len \in 1..MaxLen :
        /\ status = "ok"
        /\ reconfigs < MaxReconfig
        /\ len # processor.fft_len
        /\ processor' = new_fft_len(processor, len)
        /\ reconfigs' = reconfigs + 1
        /\ UNCHANGED <<build, status, to_discard, acc_len, fed, emitted,
                       drawingVars, canvasVars, pipeVars>>

NextFramer ==
    \/ AddSignalBuffer(MaxFed)
    \/ NewFftLen

SpecFramer == InitFramer /\ [][NextFramer]_vars

\* ------------------------------------------- fresh-framer specification
\* A fresh SignalProcessor that is never reconfigured, with the small rates
\* of the framer specification or with the worked example's rates, fed
\* until just past the worked example's first frame.
InitFresh ==
    \/ InitFramer
    \/ InitFramerWith(Worked.sample_rate_hz, Worked.fft_rate_hz, Worked.fft_len)

IsWorked ==
    /\ processor.sample_rate_hz = Worked.sample_rate_hz
    /\ processor.fft_rate_hz = Worked.fft_rate_hz
    /\ processor.fft_len = Worked.fft_len

WorkedMaxFed == Worked.sample_rate_hz \div Worked.fft_rate_hz + MaxChunk

NextFresh == AddSignalBuffer(IF IsWorked THEN WorkedMaxFed ELSE MaxFed)

SpecFresh == InitFresh /\ [][NextFresh]_vars

\* ------------------------------------------------ drawing specification
\* The helper functions of drawing.rs called the way its tests call them.
SeqsUpTo(S, n) == UNION {[1..k -> S] : k \in 0..n}

PixelNums == {None} \cup {Some(p) : p \in 0..MaxPixelNum}

InitDrawing ==
    /\ slice_in \in SeqsUpTo(0..MaxVal, MaxShiftLen)
    /\ slice = slice_in
    /\ shifts = 0
    /\ braille = <<>>
    /\ widget = [cols |-> 0, rows |-> 0]
    /\ last_draw = <<>>
    /\ FramerIdle
    /\ CanvasIdle
    /\ PipeIdle

FftShift ==
    /\ shifts < MaxShifts
    /\ slice' = fft_shift(slice)
    /\ shifts' = shifts + 1
    /\ UNCHANGED <<slice_in, braille, widget, last_draw, framerVars, canvasVars,
                   pipeVars>>

PixelNumsToBraille ==
    \E p1 \in PixelNums, p2 \in PixelNums :
        /\ braille' = [p1 |-> p1, p2 |-> p2, ch |-> pixel_nums_to_braille(p1, p2)]
        /\ UNCHANGED <<slice, slice_in, shifts, widget, last_draw, framerVars,
                       canvasVars, pipeVars>>

NextDrawing ==
    \/ FftShift
    \/ PixelNumsToBraille

SpecDrawing == InitDrawing /\ [][NextDrawing]_vars

\* ------------------------------------------------- canvas specification
\* One Canvas on a terminal of any small size, handed spectra one by one.
Spectra == SeqsUpTo(0..MaxExp, MaxSpecLen)

InitCanvas ==
    /\ \E cols \in 0..MaxCols, rows \in 0..MaxRows : canvas = CanvasNew(cols, rows)
    /\ canvas_status = "ok"
    /\ adds = 0
    /\ FramerIdle
    /\ DrawingIdle
    /\ PipeIdle

AddSpectrum ==
    \E spec \in Spectra :
        /\ canvas_status = "ok"
        /\ adds < MaxAdds
        /\ LET r == add_spectrum(canvas, spec, adds + 1)
           IN /\ canvas' = r.canvas
              /\ canvas_status' = r.status
        /\ adds' = adds + 1
        /\ UNCHANGED <<framerVars, drawingVars, pipeVars>>

NextCanvas == AddSpectrum

SpecCanvas == InitCanvas /\ [][NextCanvas]_vars

\* ------------------------------------------------- widget specification
\* The drawing functions called, one call per run, on a fresh widget of any
\* small size: draw_pixel_pair as the tests call it, draw_spectrum and
\* draw_waterfall as Canvas::add_spectrum calls them, and bin_heights as
\* draw_spectrum of src/main.rs calls it.
Magnitudes == {m * (max_height \div 4) : m \in 0..MaxMag}

\* A history of h traces whose values all differ and differ from zero: the
\* value at column c of trace j is 16 * f = (j - 1) * MaxTraceLen + c + 1.
Trace(j, len) == [c \in 1..len |-> (j - 1) * MaxTraceLen + c]

Histories ==
    UNION {{[j \in 1..h |-> Trace(j, lens[j])] :
               lens \in [1..h -> 0..MaxTraceLen]} : h \in 0..MaxHistory}

InitWidget ==
    /\ widget \in [cols : 0..MaxWidgetCols, rows : 0..MaxWidgetRows]
    /\ last_draw = <<>>
    /\ slice = <<>>
    /\ slice_in = <<>>
    /\ shifts = 0
    /\ braille = <<>>
    /\ FramerIdle
    /\ CanvasIdle
    /\ PipeIdle

DrawPixelPair ==
    /\ last_draw = <<>>
    /\ \E col_idx \in 0..(widget.cols - 1), p1 \in 0..MaxPixel,
          p2 \in 0..MaxPixel, bld \in {"debug", "release"} :
        /\ LET st == draw_pixel_pair(Cleared(widget.cols, widget.rows),
                                     col_idx, p1, p2, bld)
           IN last_draw' = [fn |-> "draw_pixel_pair", col_idx |-> col_idx,
                            p1 |-> p1, p2 |-> p2, grid |-> st.grid,
                            status |-> st.status]
        /\ UNCHANGED <<slice, slice_in, shifts, braille, widget, framerVars,
                       canvasVars, pipeVars>>

DrawSpectrum ==
    /\ last_draw = <<>>
    /\ \E spec \in SeqsUpTo(Magnitudes, MaxBins), bld \in {"debug", "release"} :
        /\ LET st == draw_spectrum(widget.cols, widget.rows, spec, bld)
           IN last_draw' = [fn |-> "draw_spectrum", spec |-> spec,
                            grid |-> st.grid, status |-> st.status]
        /\ UNCHANGED <<slice, slice_in, shifts, braille, widget, framerVars,
                       canvasVars, pipeVars>>

DrawWaterfall ==
    /\ last_draw = <<>>
    /\ \E spectra \in Histories :
        /\ LET st == draw_waterfall(widget.cols, widget.rows, spectra)
           IN last_draw' = [fn |-> "draw_waterfall", spectra |-> spectra,
                            grid |-> st.grid, status |-> st.status]
        /\ UNCHANGED <<slice, slice_in, shifts, braille, widget, framerVars,
                       canvasVars, pipeVars>>

BinHeights ==
    /\ last_draw = <<>>
    /\ \E source \in SeqsUpTo(Magnitudes, MaxBins) :
        /\ LET r == bin_heights(source, widget.cols * 2)
           IN last_draw' = [fn |-> "bin_heights", source |-> source,
                            dest |-> r.dest, status |-> r.status]
        /\ UNCHANGED <<slice, slice_in, shifts, braille, widget, framerVars,
                       canvasVars, pipeVars>>

NextWidget ==
    \/ DrawPixelPair
    \/ DrawSpectrum
    \/ DrawWaterfall
    \/ BinHeights

SpecWidget == InitWidget /\ [][NextWidget]_vars

\* --------------------------------------------------- pipeline (glue)
\* std::sync::mpsc.  A channel is the sequence of values in flight; a send
\* reports what the call returns and the channel after it.
SyncBound == 1       \* sync_channel(1)

\* Mutant: a full queue takes the new value in place of the queued one.
try_send_replacing(chan, x, receiver) ==
    IF ~receiver THEN [res |-> "Disconnected", chan |-> chan]
    ELSE IF Len(chan) >= SyncBound THEN [res |-> "Ok", chan |-> <<x>>]
    ELSE [res |-> "Ok", chan |-> Append(chan, x)]

\* Mutant: SyncSender::send, which waits while the queue is full.
try_send_blocking(chan, x, receiver) ==
    IF ~receiver THEN [res |-> "Disconnected", chan |-> chan]
    ELSE IF Len(chan) >= SyncBound THEN [res |-> "Blocked", chan |-> chan]
    ELSE [res |-> "Ok", chan |-> Append(chan, x)]

\* Mutant: the full queue is looked at before the missing receiver.
try_send_full_first(chan, x, receiver) ==
    IF Len(chan) >= SyncBound THEN [res |-> "Full", chan |-> chan]
    ELSE IF ~receiver THEN [res |-> "Disconnected", chan |-> chan]
    ELSE [res |-> "Ok", chan |-> Append(chan, x)]

\* Mutant: an accepted value is queued twice.
try_send_duplicating(chan, x, receiver) ==
    IF ~receiver THEN [res |-> "Disconnected", chan |-> chan]
    ELSE IF Len(chan) >= SyncBound THEN [res |-> "Full", chan |-> chan]
    ELSE [res |-> "Ok", chan |-> <<x, x>>]

\* SyncSender::try_send on the sync_channel(1) of examples/radio.rs.
try_send(chan, x, receiver) ==
    IF ~receiver THEN [res |-> "Disconnected", chan |-> chan]
    ELSE IF Len(chan) >= SyncBound THEN [res |-> "Full", chan |-> chan]
    ELSE [res |-> "Ok", chan |-> Append(chan, x)]

\* Sender::send on the unbounded channel() of src/main.rs.
send(chan, x, receiver) ==
    IF ~receiver THEN [res |-> "Disconnected", chan |-> chan]
    ELSE [res |-> "Ok", chan |-> Append(chan, x)]

\* One iteration of `for x in buff` of process_buffer (src/main.rs); the
\* capacity of `signal` is the fft_len it was allocated with.
ProcessBufferStep(st, x) ==
    LET p == st.p
        sig == Append(p.signal, x)
    IN IF st.status # "ok" THEN st
       ELSE IF Len(sig) >= p.fft_len THEN
           IF FftProcessOk(p.fft, sig, p.fft_len)
           THEN [st EXCEPT !.p = [p EXCEPT !.signal = <<>>],
                           !.spectra = Append(st.spectra,
                               [len |-> p.fft_len, frame |-> sig,
                                requested |-> p.fft_len])]
           ELSE [st EXCEPT !.p = [p EXCEPT !.signal = sig], !.status = "panic_fft"]
       ELSE [st EXCEPT !.p = [p EXCEPT !.signal = sig]]

RECURSIVE ProcessBufferLoop(_, _)
ProcessBufferLoop(st, buff) ==
    IF buff = <<>> THEN st
    ELSE ProcessBufferLoop(ProcessBufferStep(st, Head(buff)), Tail(buff))

\* process_buffer on one chunk: the spectra it sends, in order.
process_buffer(p, acc, buff) ==
    LET st == ProcessBufferLoop(
                  [p |-> p, acc |-> acc, spectra |-> <<>>, status |-> "ok"], buff)
    IN [p |-> st.p, acc |-> st.acc, spectra |-> st.spectra, status |-> st.status,
        target |-> U32(0)]

AfterLoop == IF program = "main" THEN "drop_recv" ELSE "stop_rx"

FramerRunning == framer_pc \in {"recv", "send"}

\* ---------------------------------------------- pipeline specification
\* The state right after main has spawned the Framer thread: the radio is
\* streaming into its channel, both threads are about to receive.
InitPipeWith(prog, R, F, L) ==
    /\ program = prog
    /\ build \in (IF prog = "radio" THEN {"debug", "release"} ELSE {"release"})
    /\ processor = SignalProcessorNew(R, F, L)
    /\ status = "ok"
    /\ to_discard = U32(0)
    /\ acc_len = L
    /\ fed = 0
    /\ emitted = <<>>
    /\ reconfigs = 0
    /\ radio = [streaming |-> TRUE, stopped |-> FALSE, rx |-> "Some"]
    /\ rx_chan = <<>>
    /\ streamed = 0
    /\ rx_recv = TRUE
    /\ framer_pc = "recv"
    /\ pending = <<>>
    /\ spec_chan = <<>>
    /\ spec_send = TRUE
    /\ spec_recv = TRUE
    /\ shared_fft_len = L
    /\ main_pc = "recv"
    /\ current = <<>>
    /\ received = <<>>
    /\ offered = <<>>
    /\ DrawingIdle
    /\ CanvasIdle

InitPipe ==
    \/ \E R \in 0..MaxPipeRate, F \in 1..MaxPipeFftRate, L \in 1..MaxPipeLen :
           InitPipeWith("radio", R, F, L)
    \/ \E L \in 1..MaxPipeLen : InitPipeWith("main", 0, 0, L)

\* rx_callback: the driver hands over one transfer while it is streaming.
\* A failed send makes the callback return -1, which ends the streaming.
RxCallback ==
    /\ radio.streaming
    /\ radio.rx = "Some"
    /\ IF rx_recv
       THEN \E n \in 1..MaxPipeChunk :
               /\ streamed + n <= MaxStream
               /\ Len(rx_chan) < MaxQueue
               /\ rx_chan' = send(rx_chan, Chunk(streamed, n), rx_recv).chan
               /\ streamed' = streamed + n
               /\ UNCHANGED radio
       ELSE /\ radio' = [radio EXCEPT !.streaming = FALSE]
            /\ UNCHANGED <<rx_chan, streamed>>
    /\ UNCHANGED <<framerVars, drawingVars, canvasVars, program, rx_recv, framer_pc,
                   pending, spec_chan, spec_send, spec_recv, shared_fft_len,
                   main_pc, current, received, offered>>

\* One turn of `for buff in recv.iter()` up to the delivery loop: the chunk
\* is taken, the requested length read and applied, the chunk framed.  The
\* iterator ends once the channel is empty and its Sender is gone.
FramerRecv ==
    /\ framer_pc = "recv"
    /\ rx_chan # <<>> \/ radio.rx # "Some"
    /\ IF rx_chan # <<>>
       THEN LET buff == Head(rx_chan)
                resize == program = "radio" /\ shared_fft_len # processor.fft_len
                p1 == IF resize THEN new_fft_len(processor, shared_fft_len)
                      ELSE processor
                r == IF program = "radio"
                     THEN add_signal_buffer(p1, acc_len, buff, build)
                     ELSE process_buffer(p1, acc_len, buff)
            IN /\ rx_chan' = Tail(rx_chan)
               /\ processor' = r.p
               /\ acc_len' = r.acc
               /\ status' = r.status
               /\ to_discard' = r.target
               /\ emitted' = emitted \o r.spectra
               /\ fed' = fed + Len(buff)
               /\ reconfigs' = IF resize THEN reconfigs + 1 ELSE reconfigs
               /\ pending' = IF r.status = "ok" THEN r.spectra ELSE <<>>
               /\ framer_pc' = IF r.status # "ok" THEN "panicked"
                               ELSE IF r.spectra = <<>> THEN "recv" ELSE "send"
               /\ rx_recv' = (r.status = "ok")
               /\ spec_send' = (r.status = "ok")
       ELSE /\ framer_pc' = "done"
            /\ rx_recv' = FALSE
            /\ spec_send' = FALSE
            /\ UNCHANGED <<rx_chan, processor, acc_len, status, to_discard, emitted,
                           fed, reconfigs, pending>>
    /\ UNCHANGED <<build, drawingVars, canvasVars, program, radio, streamed,
                   spec_chan, spec_recv, shared_fft_len, main_pc, current,
                   received, offered>>

\* One turn of `for spectrum in spectra`: try_send in examples/radio.rs and
\* processing.rs, send in src/main.rs; Disconnected makes the Framer return.
FramerSend ==
    /\ framer_pc = "send"
    /\ LET x == Head(pending)
           r == IF program = "radio" THEN try_send(spec_chan, x, spec_recv)
                ELSE send(spec_chan, x, spec_recv)
       IN /\ r.res # "Blocked"
          /\ spec_chan' = r.chan
          /\ offered' = Append(offered, x)
          /\ IF r.res = "Disconnected"
             THEN /\ framer_pc' = "done"
                  /\ pending' = <<>>
                  /\ rx_recv' = FALSE
                  /\ spec_send' = FALSE
             ELSE /\ pending' = Tail(pending)
                  /\ framer_pc' = IF Tail(pending) = <<>> THEN "recv" ELSE "send"
                  /\ UNCHANGED <<rx_recv, spec_send>>
    /\ UNCHANGED <<framerVars, drawingVars, canvasVars, program, radio, rx_chan,
                   streamed, spec_recv, shared_fft_len, main_pc, current, received>>

\* `for spec in spec_recv.iter()`: the next spectrum, or the end of the loop
\* once the channel is empty and the Framer's sending end is gone.
MainRecv ==
    /\ main_pc = "recv"
    /\ spec_chan # <<>> \/ ~spec_send
    /\ IF spec_chan # <<>>
       THEN /\ current' = <<Head(spec_chan)>>
            /\ spec_chan' = Tail(spec_chan)
            /\ received' = Append(received, Head(spec_chan))
            /\ offered' = <<>>
            /\ main_pc' = "draw"
       ELSE /\ main_pc' = AfterLoop
            /\ UNCHANGED <<current, spec_chan, received, offered>>
    /\ UNCHANGED <<framerVars, drawingVars, canvasVars, program, radio, rx_chan,
                   streamed, rx_recv, framer_pc, pending, spec_send, spec_recv,
                   shared_fft_len>>

\* The body of the render loop: the spectrum is drawn, the keyboard polled,
\* and (examples/radio.rs) the spectrum width written to the shared length.
\* Whether drawing panics is decided by the drawing code on the spectrum's
\* values and the terminal's size, which the pipeline does not carry: either
\* outcome is possible here.  `width` is the terminal's current width.
MainDraw ==
    /\ main_pc = "draw"
    /\ \E drawn \in BOOLEAN, quit \in BOOLEAN, width \in 1..MaxPipeLen :
           /\ main_pc' = IF ~drawn THEN "return"
                         ELSE IF quit THEN AfterLoop ELSE "recv"
           /\ shared_fft_len' = IF drawn /\ ~quit /\ program = "radio"
                                THEN width ELSE shared_fft_len
    /\ current' = <<>>
    /\ UNCHANGED <<framerVars, drawingVars, canvasVars, program, radio, rx_chan,
                   streamed, rx_recv, framer_pc, pending, spec_chan, spec_send,
                   spec_recv, received, offered>>

\* src/main.rs: drop(spec_recv).
MainDropRecv ==
    /\ main_pc = "drop_recv"
    /\ spec_recv' = FALSE
    /\ main_pc' = "stop_rx"
    /\ UNCHANGED <<framerVars, drawingVars, canvasVars, program, radio, rx_chan,
                   streamed, rx_recv, framer_pc, pending, spec_chan, spec_send,
                   shared_fft_len, current, received, offered>>

\* radio.stop_rx(): hackrf_stop_rx ends the streaming and leaves self.rx in
\* place; an error from the driver makes main panic.
MainStopRx ==
    /\ main_pc = "stop_rx"
    /\ \E ok \in BOOLEAN :
           IF ok
           THEN /\ radio' = [radio EXCEPT !.streaming = FALSE, !.stopped = TRUE]
                /\ main_pc' = IF program = "main" THEN "join" ELSE "return"
           ELSE /\ main_pc' = "return"
                /\ UNCHANGED radio
    /\ UNCHANGED <<framerVars, drawingVars, canvasVars, program, rx_chan, streamed,
                   rx_recv, framer_pc, pending, spec_chan, spec_send, spec_recv,
                   shared_fft_len, current, received, offered>>

\* src/main.rs: child.join() returns once the Framer thread has ended.
MainJoin ==
    /\ main_pc = "join"
    /\ ~FramerRunning
    /\ main_pc' = "return"
    /\ UNCHANGED <<framerVars, drawingVars, canvasVars, program, radio, rx_chan,
                   streamed, rx_recv, framer_pc, pending, spec_chan, spec_send,
                   spec_recv, shared_fft_len, current, received, offered>>

\* main returns or unwinds: its locals are dropped, spec_recv before radio.
MainReturn ==
    /\ main_pc = "return"
    /\ spec_recv' = FALSE
    /\ main_pc' = "drop_radio"
    /\ UNCHANGED <<framerVars, drawingVars, canvasVars, program, radio, rx_chan,
                   streamed, rx_recv, framer_pc, pending, spec_chan, spec_send,
                   shared_fft_len, current, received, offered>>

\* Drop for HackRF: hackrf_close, then the Sender in self.rx is dropped.
MainDropRadio ==
    /\ main_pc = "drop_radio"
    /\ radio' = [radio EXCEPT !.streaming = FALSE, !.rx = "Dropped"]
    /\ main_pc' = "exit"
    /\ UNCHANGED <<framerVars, drawingVars, canvasVars, program, rx_chan, streamed,
                   rx_recv, framer_pc, pending, spec_chan, spec_send, spec_recv,
                   shared_fft_len, current, received, offered>>

\* The process ends when main has returned: a Framer still running is killed.
ProcessExit ==
    /\ main_pc = "exit"
    /\ main_pc' = "exited"
    /\ framer_pc' = IF FramerRunning THEN "killed" ELSE framer_pc
    /\ UNCHANGED <<framerVars, drawingVars, canvasVars, program, radio, rx_chan,
                   streamed, rx_recv, pending, spec_chan, spec_send, spec_recv,
                   shared_fft_len, current, received, offered>>

Next ==
    \/ RxCallback
    \/ FramerRecv
    \/ FramerSend
    \/ MainRecv
    \/ MainDraw
    \/ MainDropRecv
    \/ MainStopRx
    \/ MainJoin
    \/ MainReturn
    \/ MainDropRadio
    \/ ProcessExit

Spec == InitPipe /\ [][Next]_vars

\* ------------------------------------------------------- framer claims
\* discard_per_frame as the specification writes it.
DiscardPerFrame(R, F, L) == (R - F * L) \div F

Last(s) == s[Len(s)]

\* C1: for a fresh framer that is never reconfigured, with frame rate F > 0,
\* frame length L > 0 and F*L <= R, a total of k*(discard_per_frame + L)
\* samples, however chunked, has produced exactly k spectra, each of length
\* L, for every k >= 1.
C1_KFramesFromKPeriods ==
    LET R == processor.sample_rate_hz
        F == processor.fft_rate_hz
        L == processor.fft_len
    IN (reconfigs = 0 /\ F > 0 /\ F * L <= R) =>
           \A k \in 1..MaxFed :
               fed = k * (DiscardPerFrame(R, F, L) + L) =>
                   /\ status = "ok"
                   /\ Len(emitted) = k
                   /\ \A i \in 1..k : /\ emitted[i].len = L
                                       /\ Len(emitted[i].frame) = L

\* C1 witness: two full periods with a non-zero discard have been fed and
\* two spectra have come out.
C1_Witness ==
    LET R == processor.sample_rate_hz
        F == processor.fft_rate_hz
        L == processor.fft_len
    IN /\ reconfigs = 0 /\ F > 0 /\ F * L <= R
       /\ DiscardPerFrame(R, F, L) > 0
       /\ fed = 2 * (DiscardPerFrame(R, F, L) + L)
       /\ Len(emitted) = 2

\* C2: the computed num_samples_to_discard is (R - F*L) div F; a fresh
\* framer has emitted its first spectrum exactly when discard_per_frame + L
\* samples have been consumed, that spectrum ends on sample number
\* discard_per_frame + L and has length L; with the worked example's rates
\* the discard is 198,976 and the first spectrum, of length 1024, ends on
\* sample 200,000.
C2_FirstSpectrumAt ==
    LET R == processor.sample_rate_hz
        F == processor.fft_rate_hz
        L == processor.fft_len
        d == DiscardPerFrame(R, F, L)
    IN (F > 0 /\ F * L <= R) =>
           /\ status = "ok"
           /\ fed > 0 => to_discard = U32(d)
           /\ Len(emitted) >= 1 <=> fed >= d + L
           /\ Len(emitted) >= 1 =>
                  /\ emitted[1].len = L
                  /\ Len(emitted[1].frame) = L
                  /\ Last(emitted[1].frame) = d + L
           /\ IsWorked =>
                  /\ fed > 0 => to_discard = U32(198976)
                  /\ Len(emitted) >= 1 <=> fed >= 200000
                  /\ Len(emitted) >= 1 =>
                         /\ emitted[1].len = 1024
                         /\ Last(emitted[1].frame) = 200000

\* C2 witness: the worked example right after its 200,000th sample.
C2_Witness ==
    /\ IsWorked
    /\ fed = 200000
    /\ Len(emitted) = 1
    /\ to_discard = U32(198976)

\* C3: when frame_rate_hz * frame_len > sample_rate_hz the number of samples
\* to discard is clamped to zero: the call does not panic, the value does
\* not wrap, and frames follow one another with no sample skipped.
C3_ClampedToZero ==
    LET R == processor.sample_rate_hz
        F == processor.fft_rate_hz
        L == processor.fft_len
    IN (reconfigs = 0 /\ F > 0 /\ F * L > R /\ fed > 0) =>
           /\ status = "ok"
           /\ to_discard = U32(0)
           /\ Len(emitted) = fed \div L

\* C4: every emitted spectrum has the frame length that was in force when
\* its frame got its first sample, the buffer transformed has that length
\* too, and the transform is never handed a buffer of another length.
C4_NoMixedLengthFrame ==
    /\ status # "panic_fft"
    /\ \A i \in 1..Len(emitted) :
           /\ emitted[i].len = emitted[i].requested
           /\ Len(emitted[i].frame) = emitted[i].requested

\* ------------------------------------------------------ drawing claims
\* C7: on a terminal of at least two rows and one column, the history never
\* holds more traces than its capacity C = 2 x waterfall rows, and once
\* C + 1 traces have been inserted the first-inserted one is no longer in it.
C7_HistoryBounded ==
    LET C == 2 * canvas.waterfall_height
        inserted == IF canvas_status = "ok" THEN adds ELSE adds - 1
    IN (canvas.rows >= 2 /\ canvas.cols >= 1) =>
           /\ Len(canvas.history) <= C
           /\ inserted >= C + 1 =>
                  \A i \in 1..Len(canvas.history) : canvas.history[i].serial # 1

\* C8 as claimed: fft_shift applied twice returns the original sequence,
\* whatever its length.
C8_ShiftTwiceIsIdentity == shifts = 2 => slice = slice_in

\* C8 as amended: fft_shift applied twice returns the original sequence when
\* its length is even or 1; for an odd length N >= 3 it returns the sequence
\* rotated left by one place (output[i] = input[i + 1], output[N] = input[1]).
C8_ShiftTwiceEvenOrRotated ==
    shifts = 2 =>
        LET n == Len(slice_in)
        IN /\ Len(slice) = n
           /\ IF n % 2 = 0 \/ n <= 1
              THEN slice = slice_in
              ELSE \A i \in 1..n : slice[i] = slice_in[(i % n) + 1]

\* C8 witness: a four-element slice with distinct halves, shifted twice.
C8_Witness ==
    /\ shifts = 2
    /\ slice_in = <<0, 0, 1, 1>>
    /\ slice = slice_in

\* The dots of one column the specification asks for: every sub-row i with
\* p <= i <= 3, none for None.
DotRows(p) == IF p = None THEN {} ELSE {i \in 0..3 : p[1] <= i}

LeftBits == <<1, 2, 4, 64>>
RightBits == <<8, 16, 32, 128>>

RECURSIVE SumBits(_, _)
SumBits(bits, rows) ==
    IF rows = {} THEN 0
    ELSE LET i == CHOOSE r \in rows : TRUE
         IN bits[i + 1] + SumBits(bits, rows \ {i})

\* The number of left-column dots set in a glyph.
LeftDots(ch) ==
    Cardinality({i \in 1..4 : ((ch - BrailleBase) \div LeftBits[i]) % 2 = 1})

InClaimRange(p) == p = None \/ p[1] \in 0..3

\* C9: for p1, p2 in {None, Some(0..3)} the glyph is U+2800 plus the left
\* bits of every sub-row from p1 to 3 and the right bits of every sub-row
\* from p2 to 3; (Some(0), Some(0)) is U+28FF, (None, None) is U+2800, and a
\* larger left index never sets more left-column dots.
C9_BrailleGlyph ==
    (braille # <<>> /\ InClaimRange(braille.p1) /\ InClaimRange(braille.p2)) =>
        /\ braille.ch = BrailleBase + SumBits(LeftBits, DotRows(braille.p1))
                                    + SumBits(RightBits, DotRows(braille.p2))
        /\ (braille.p1 = Some(0) /\ braille.p2 = Some(0)) => braille.ch = 10495
        /\ (braille.p1 = None /\ braille.p2 = None) => braille.ch = 10240
        /\ braille.p1 # None =>
               \A q \in 0..3 :
                   q > braille.p1[1] =>
                       LeftDots(pixel_nums_to_braille(Some(q), braille.p2))
                           <= LeftDots(braille.ch)

\* C9 witness: the call of the unit test, (Some(1), Some(2)) giving U+28E6.
C9_Witness ==
    /\ braille # <<>>
    /\ braille.p1 = Some(1)
    /\ braille.p2 = Some(2)
    /\ braille.ch = 10470

\* ----------------------------------------------------- pipeline claims
\* C5 as claimed: with the Renderer busy drawing, after N > 1 deliveries
\* have been attempted on the capacity-1 queue, the one spectrum waiting in
\* the queue is the most recently produced of the N.
C5_NewestKept ==
    (program = "radio" /\ main_pc = "draw" /\ Len(offered) > 1) =>
        /\ Len(spec_chan) = 1
        /\ spec_chan[1] = offered[Len(offered)]

\* C5 as amended: with the Renderer busy drawing, after N > 1 deliveries
\* have been attempted on the capacity-1 queue, exactly one spectrum waits
\* in the queue, and it is the first (oldest) of the N: the later ones were
\* discarded.
C5_OldestKept ==
    (program = "radio" /\ main_pc = "draw" /\ Len(offered) > 1) =>
        /\ Len(spec_chan) = 1
        /\ spec_chan[1] = offered[1]
        /\ spec_chan[1] # offered[Len(offered)]

\* C5 witness: three deliveries attempted while the Renderer draws.
C5_Witness ==
    /\ program = "radio"
    /\ main_pc = "draw"
    /\ Len(offered) = 3
    /\ spec_chan = <<offered[1]>>

\* C6: the queue to the Renderer never holds more than one spectrum; a
\* delivery is never made to wait; a delivery on a full queue leaves the
\* queue as it was and discards the new spectrum; and after a delivery the
\* Framer goes on with its next spectrum or, after the last one, with
\* receiving its next chunk, whatever the Renderer is doing.
C6_DeliveryNeverBlocks ==
    /\ [](program = "radio" =>
             /\ Len(spec_chan) <= 1
             /\ framer_pc = "send" => ENABLED FramerSend)
    /\ [][(program = "radio" /\ framer_pc = "send" /\ spec_recv
              /\ offered' = Append(offered, Head(pending))) =>
            /\ Len(spec_chan) = 1 =>
                   /\ spec_chan' = spec_chan
                   /\ Head(pending) # spec_chan'[1]
            /\ pending' = Tail(pending)
            /\ framer_pc' = IF pending' = <<>> THEN "recv" ELSE "send"]_vars

\* C6 witness: a delivery has just been attempted on a full queue while the
\* Renderer draws, and the Framer is back at receiving.
C6_Witness ==
    /\ program = "radio"
    /\ main_pc = "draw"
    /\ framer_pc = "recv"
    /\ Len(offered) >= 2
    /\ Len(spec_chan) = 1

\* C10: once the radio has been stopped, the shutdown runs to its end: the
\* system is never left unable to take a step before main has exited, so
\* the Framer is never blocked for ever on its input queue and the join on
\* its thread returns.
C10_ShutdownCompletes ==
    radio.stopped => (main_pc = "exited" \/ ENABLED Next)

\* ------------------------------------------------- further claims
\* C11: for every terminal row count the spectrum widget is rows/2 rows
\* high, the spectrum and waterfall widget heights add up to the number of
\* terminal rows, and the history capacity is twice the waterfall height.
C11_HeightsSumToRows ==
    /\ canvas.spectrum_height = canvas.rows \div 2
    /\ canvas.spectrum_height + canvas.waterfall_height = canvas.rows
    /\ canvas.history_capacity = 2 * canvas.waterfall_height

\* C13 as claimed: after one fft_shift of a sequence of length N the output
\* is the input from index (N+1)/2 to the end followed by the input from
\* index 0 to (N+1)/2 - 1; index 0 of the output holds the input's element
\* (N+1)/2; the input's element 0 is at index floor(N/2); for even N the
\* two halves are swapped.  (Indices of the claim count from 0.)
C13_ShiftLayout ==
    shifts = 1 =>
        LET N == Len(slice_in)
            k == (N + 1) \div 2
        IN /\ Len(slice) = N
           /\ \A i \in 0..(N - 1) :
                  slice[i + 1] = IF i < N - k THEN slice_in[k + i + 1]
                                 ELSE slice_in[i - (N - k) + 1]
           /\ N >= 1 => /\ k \in 0..(N - 1)
                        /\ slice[0 + 1] = slice_in[k + 1]
           /\ N >= 1 => slice[N \div 2 + 1] = slice_in[0 + 1]
           /\ N % 2 = 0 =>
                  slice = SubSeq(slice_in, N \div 2 + 1, N)
                              \o SubSeq(slice_in, 1, N \div 2)

\* C13 as amended: the same layout, with index 0 of the output holding the
\* input's element (N+1)/2 for N >= 2; a sequence of length 1 has no such
\* element and is left as it is.
C13_ShiftLayoutFromTwo ==
    shifts = 1 =>
        LET N == Len(slice_in)
            k == (N + 1) \div 2
        IN /\ Len(slice) = N
           /\ \A i \in 0..(N - 1) :
                  slice[i + 1] = IF i < N - k THEN slice_in[k + i + 1]
                                 ELSE slice_in[i - (N - k) + 1]
           /\ N >= 2 => /\ k \in 0..(N - 1)
                        /\ slice[0 + 1] = slice_in[k + 1]
           /\ N = 1 => slice = slice_in
           /\ N >= 1 => slice[N \div 2 + 1] = slice_in[0 + 1]
           /\ N % 2 = 0 =>
                  slice = SubSeq(slice_in, N \div 2 + 1, N)
                              \o SubSeq(slice_in, 1, N \div 2)

\* C13 witness: a length-3 sequence with only its element 0 set has been
\* shifted once, and the mark is at the centre index 1.
C13_Witness ==
    /\ shifts = 1
    /\ slice_in = <<1, 0, 0>>
    /\ slice = <<0, 1, 0>>

\* C15: a call of new_fft_len(n) leaves the framer with frame length n, an
\* empty accumulation buffer and a discard counter of zero.
C15_ReconfigResets ==
    [][reconfigs' = reconfigs + 1 =>
          /\ processor'.fft_len # processor.fft_len
          /\ processor'.fft = processor'.fft_len
          /\ processor'.signal = <<>>
          /\ processor'.num_samples_discarded = 0]_vars

\* C16: a delivery attempted when the Renderer's end of the queue is gone
\* ends the Framer stage, which returns without a panic and leaves the queue
\* alone; a delivery that finds the receiver there, the queue full or not,
\* does not end the stage.
C16_DisconnectedEndsStage ==
    [][(framer_pc = "send" /\ offered' = Append(offered, Head(pending))) =>
          /\ ~spec_recv => /\ framer_pc' = "done"
                           /\ status' = "ok"
                           /\ spec_chan' = spec_chan
                           /\ ~spec_send'
          /\ spec_recv => /\ framer_pc' \in {"recv", "send"}
                          /\ spec_send']_vars

\* C16 witness: the Framer has returned on a failed delivery: the Renderer's
\* end is gone, a spectrum waits in the full queue, and the radio's Sender
\* is still there, so its input did not end.
C16_Witness ==
    /\ program = "radio"
    /\ framer_pc = "done"
    /\ status = "ok"
    /\ ~spec_recv
    /\ Len(spec_chan) = SyncBound
    /\ radio.rx = "Some"
    /\ offered # <<>>

\* C19: without reconfiguration the spectra emitted so far are those of one
\* add_signal_buffer call on the whole stream fed so far, whatever the
\* chunks were, and the k-th frame is the fft_len consecutive samples that
\* follow the k-th run of discard_per_frame skipped samples.
C19_ChunkingIrrelevant ==
    LET R == processor.sample_rate_hz
        F == processor.fft_rate_hz
        L == processor.fft_len
        d == DiscardPerFrame(R, F, L)
        whole == add_signal_buffer(SignalProcessorNew(R, F, L), L,
                                   Chunk(0, fed), build)
    IN reconfigs = 0 =>
           /\ emitted = whole.spectra
           /\ fed > 0 => status = whole.status
           /\ (F > 0 /\ F * L <= R) =>
                  \A k \in 1..Len(emitted) :
                      emitted[k].frame = [i \in 1..L |-> (k - 1) * (d + L) + d + i]

\* C19 witness: two frames have come out, each after a skipped sample, and
\* a chunk has ended in the middle of the third frame.
C19_Witness ==
    /\ reconfigs = 0
    /\ status = "ok"
    /\ processor.fft_len = 2
    /\ to_discard = U32(1)
    /\ Len(emitted) = 2
    /\ Len(processor.signal) = 1

RECURSIVE IsSubsequence(_, _)
IsSubsequence(s, t) ==
    IF s = <<>> THEN TRUE
    ELSE IF t = <<>> THEN FALSE
    ELSE IF Head(s) = Head(t) THEN IsSubsequence(Tail(s), Tail(t))
    ELSE IsSubsequence(s, Tail(t))

\* C20: the spectra the Renderer has received are, in order, some of the
\* spectra the Framer has emitted: none twice, none out of emission order,
\* none that was not emitted.
C20_ReceivedInOrder ==
    /\ IsSubsequence(received, emitted)
    /\ \A i, j \in 1..Len(received) : i # j => received[i] # received[j]
    /\ \A i \in 1..Len(spec_chan) :
           \E j \in 1..Len(emitted) : spec_chan[i] = emitted[j]

\* C20 witness: the Renderer has received two spectra and at least one
\* emitted between or after them was dropped.
C20_Witness ==
    /\ program = "radio"
    /\ Len(received) = 2
    /\ spec_chan = <<>>
    /\ pending = <<>>
    /\ Len(emitted) > 2

\* ------------------------------------------------------ widget claims
HasBit(c, b) == (c \div b) % 2 = 1

\* Whether the dot of sub-row s (0 at the top) is set in a cell: side 0 is
\* the left dot column, side 1 the right one.  A cell holding ' ' has none.
DotSet(cell, side, s) ==
    /\ cell.ch # Space
    /\ HasBit(cell.ch - BrailleBase,
              IF side = 0 THEN LeftBits[s + 1] ELSE RightBits[s + 1])

\* C12: on a widget of at least one row, draw_pixel_pair(col, p1, p2) on a
\* blank column returns normally and, with h_i = min(p_i, 4*rows - 1), sets
\* the left dot of cell row r, sub-row s exactly when 4r + s >= 4*rows - 1 - h1
\* and the right dot exactly when 4r + s >= 4*rows - 1 - h2; a cell wholly
\* above both bars, and every cell of another column, stays blank.
C12_BarSilhouette ==
    (last_draw # <<>> /\ last_draw.fn = "draw_pixel_pair" /\ widget.rows >= 1) =>
        LET rows == widget.rows
            top1 == 4 * rows - 1 - Min(last_draw.p1, 4 * rows - 1)
            top2 == 4 * rows - 1 - Min(last_draw.p2, 4 * rows - 1)
            col == last_draw.col_idx
        IN /\ last_draw.status = "ok"
           /\ \A r \in 0..(rows - 1) :
                  /\ \A s \in 0..3 :
                         /\ DotSet(last_draw.grid[col, r], 0, s) <=> 4 * r + s >= top1
                         /\ DotSet(last_draw.grid[col, r], 1, s) <=> 4 * r + s >= top2
                  /\ 4 * r + 3 < Min(top1, top2) =>
                         last_draw.grid[col, r] = DefaultCell
                  /\ \A c \in 0..(widget.cols - 1) :
                         c # col => last_draw.grid[c, r] = DefaultCell

\* C12 witness: draw_pixel_pair(0, 1, 6) on two rows: the left bar's top is
\* in the lower cell, the right bar's top in the upper one.
C12_Witness ==
    /\ last_draw # <<>>
    /\ last_draw.fn = "draw_pixel_pair"
    /\ widget.rows = 2
    /\ last_draw.p1 = 1
    /\ last_draw.p2 = 6
    /\ last_draw.status = "ok"
    /\ last_draw.grid[last_draw.col_idx, 0].ch = pixel_nums_to_braille(None, Some(1))
    /\ last_draw.grid[last_draw.col_idx, 1].ch = pixel_nums_to_braille(Some(2), Some(0))

\* C14: for every widget size, rows of 0 included, every spectrum and every
\* history, draw_spectrum, draw_pixel_pair and draw_waterfall return
\* normally: no cell or bin is accessed out of bounds and no unsigned
\* computation overflows.
C14_DrawingInBounds ==
    (last_draw # <<>>
        /\ last_draw.fn \in {"draw_spectrum", "draw_pixel_pair", "draw_waterfall"}) =>
        last_draw.status = "ok"

\* C17: bin_heights on a source of at least as many elements as the n >= 1
\* bins of the destination returns normally; with size = floor(len(source)
\* / n), every output bin j it writes holds the sum of the source elements
\* (j-1)*size + 1 .. min(j*size, len(source)) divided by the number of
\* those elements.
C17_BinsAreMeans ==
    (last_draw # <<>> /\ last_draw.fn = "bin_heights" /\ widget.cols >= 1
        /\ Len(last_draw.source) >= 2 * widget.cols) =>
        LET source == last_draw.source
            dest == last_draw.dest
            size == Len(source) \div Len(dest)
        IN /\ last_draw.status = "ok"
           /\ \A j \in 1..Len(dest) :
                  dest[j].written =>
                      /\ dest[j].first = (j - 1) * size + 1
                      /\ dest[j].last = Min(j * size, Len(source))
                      /\ dest[j].divisor = dest[j].last - dest[j].first + 1

\* C18: draw_waterfall returns normally and draws cell (c, r) from history
\* entries 2r (foreground) and 2r + 1 (background), counted from 0 at the
\* newest: a missing entry 2r + 1, and a trace that ends before column c,
\* count as zero intensity; the cell is left alone when entry 2r does not
\* exist or both traces end before column c; entries from 2 * rows on and
\* values from column cols on are not drawn.
C18_WaterfallRows ==
    (last_draw # <<>> /\ last_draw.fn = "draw_waterfall") =>
        /\ last_draw.status = "ok"
        /\ \A c \in 0..(widget.cols - 1), r \in 0..(widget.rows - 1) :
               LET h == last_draw.spectra
                   has_upper == 2 * r < Len(h)
                   has_lower == 2 * r + 1 < Len(h)
                   upper_len == IF has_upper THEN Len(h[2 * r + 1]) ELSE 0
                   lower_len == IF has_lower THEN Len(h[2 * r + 2]) ELSE 0
                   u == IF c < upper_len THEN h[2 * r + 1][c + 1] ELSE 0
                   l == IF c < lower_len THEN h[2 * r + 2][c + 1] ELSE 0
               IN IF has_upper /\ (c < upper_len \/ c < lower_len)
                  THEN last_draw.grid[c, r] =
                           [ch |-> UpperHalfBlock, fg |-> color_mapping(u),
                            bg |-> color_mapping(l), attrs |-> "Default"]
                  ELSE last_draw.grid[c, r] = DefaultCell

\* C18 witness: three traces of 2, 1 and 2 values on a 2 x 2 widget: row 0
\* pairs a longer upper trace with a shorter lower one, row 1 has no partner.
C18_Witness ==
    /\ last_draw # <<>>
    /\ last_draw.fn = "draw_waterfall"
    /\ widget = [cols |-> 2, rows |-> 2]
    /\ Len(last_draw.spectra) = 3
    /\ Len(last_draw.spectra[1]) = 2
    /\ Len(last_draw.spectra[2]) = 1
    /\ Len(last_draw.spectra[3]) = 2
    /\ last_draw.grid[1, 0].fg = color_mapping(last_draw.spectra[1][2])
    /\ last_draw.grid[1, 0].bg = ColorLower
    /\ last_draw.grid[0, 1].fg = color_mapping(last_draw.spectra[3][1])
    /\ last_draw.grid[0, 1].bg = ColorLower

====
